---- MODULE Spec2Model ----
(***************************************************************************)
(* A model of the WhatsApp relay of IW-App.                                *)
(*                                                                         *)
(*   src/app.py   the manga-chapter pipeline: POST /webhook, the Redis     *)
(*                idempotency records and per-user media counter, the      *)
(*                two-phase (upload, then reference) document send and the *)
(*                temporary PDF in temp_manga/.                            *)
(*   src/main.py  the web-proxy variant: WhatsAppClient.send_document and  *)
(*                the chunk loop of WebProxy.handle_command.               *)
(*   both         GET /webhook, the verification handshake.                *)
(*                                                                         *)
(* Every request runs in its own thread (a worker).  A worker step is one  *)
(* access to shared state (a Redis command, a file-system call) together   *)
(* with the thread-local work and the outbound HTTP calls around it.       *)
(*                                                                         *)
(* Time is kept as the remaining time-to-live (in hours) of each Redis     *)
(* key.  Spec lets a key's TTL elapse at any moment; SpecWindow advances   *)
(* a clock one hour at a time.                                             *)
(***************************************************************************)
EXTENDS Integers, Sequences, FiniteSets, TLC

(* ------------------------------------------------------------------ *)
(* Program constants                                                   *)
(* ------------------------------------------------------------------ *)

\* can_send_media: get_user_message_count(user_number) < 12
MEDIA_LIMIT == 12

\* redis_client.expire(key, 24 * 60 * 60), in hours
QUOTA_TTL == 24

\* redis_client.setex(key, 3600, "1"), in hours
PROCESSED_TTL == 1

(* ------------------------------------------------------------------ *)
(* Bounds of the model                                                 *)
(* ------------------------------------------------------------------ *)

\* request threads that may run at the same time
NumWorkers == 2

\* deliveries app.py's webhook receives in one behaviour
MaxRequests == 2

\* hours a quota window is followed for in SpecWindow
MaxAge == 26

\* the longest serialized payload process_webpage is given to chunk
MaxLen == 5

\* self.chunk_size is 1000 * 1024 characters; the model takes a few, so
\* that payloads of several chunks can be enumerated
chunk_size == 2

Workers == 1..NumWorkers

\* the thread of the specifications that handle one request at a time
SeqWorkers == {1}

NoId == 0
NoExpiry == -1
NoWindow == -1

(* The webhook deliveries the platform may make, each any number of times
   (a redelivery carries the same id and the same payload).  kind is what
   webhook() tells apart: a text holding a lekmanga.net/manga/ URL, any
   other text, a message that is not a text.  Events 1 and 2 are two
   different messages of one user asking for the same chapter. *)
Events ==
    { [id |-> 1, from |-> 1, kind |-> "url"],
      [id |-> 2, from |-> 1, kind |-> "url"],
      [id |-> 3, from |-> 1, kind |-> "plain"],
      [id |-> 4, from |-> 1, kind |-> "other"] }

\* A message without an id (message.get('id') is None).
AnonymousEvents == { [id |-> NoId, from |-> 1, kind |-> "url"] }

(* Bodies that hold no message to process: no (or an empty) 'entry',
   'changes' or 'messages', and a message of type text without a 'text'
   object. *)
MalformedBodies ==
    { [id |-> NoId, from |-> 0, kind |-> "noentry"],
      [id |-> NoId, from |-> 0, kind |-> "nochanges"],
      [id |-> NoId, from |-> 0, kind |-> "nomessages"],
      [id |-> 5, from |-> 1, kind |-> "nobody"] }

NoEvent == [id |-> NoId, from |-> 0, kind |-> "none"]

EventIds == {e.id : e \in Events \cup MalformedBodies} \ {NoId}

Users == {e.from : e \in Events}

VARIABLES
    processed,    \* Redis processed_message:<id>: remaining TTL, 0 = no key
    quotaCount,   \* Redis whatsapp_count:<user>: the value, 0 = no key
    quotaTTL,     \* its remaining TTL; NoExpiry = the key has none
    storeUp,      \* whether Redis answers
    tempDir,      \* whether temp_manga/ exists
    pdfFile,      \* the chapter's PDF in temp_manga/: 0 = absent, else the
                  \* worker whose run wrote it
    run,          \* per worker: the request thread's position and locals
    delivered,    \* how many deliveries app.py's webhook has received
    markLive,     \* history: the time left of the hour that follows the
                  \* last mark_message_processed(id) call, 0 = none
    windowAge,    \* history: hours since the first increment of the
                  \* user's current window, NoWindow = no window open
    mrun,         \* main.py, per worker: the request thread's position
                  \* and locals
    proxy,        \* main.py: one handle_command call followed chunk by
                  \* chunk (the payload, the chunks, the messages built)
    vrun          \* GET /webhook: the request in progress and its answer

vars == <<processed, quotaCount, quotaTTL, storeUp, tempDir, pdfFile, run,
          delivered, markLive, windowAge, mrun, proxy, vrun>>

\* Redis, temp_manga/ and the request threads of app.py
appState == <<processed, quotaCount, quotaTTL, storeUp, tempDir, pdfFile, run,
              delivered, markLive, windowAge>>

\* what main.py's POST /webhook leaves alone
appVars == <<appState, proxy, vrun>>

\* what app.py's POST /webhook leaves alone
mainVars == <<mrun, proxy, vrun>>

storeVars == <<processed, quotaCount, quotaTTL, markLive, windowAge>>

fsVars == <<tempDir, pdfFile>>

(* The locals of an idle thread.  The fields after ev record what the
   request has done so far. *)
IdleRun ==
    [ pc      |-> "idle",       \* idle, mark, the PipelinePcs, done
      ev      |-> NoEvent,
      dup     |-> FALSE,    \* is_processed_message returned true
      sawLive |-> FALSE,    \* history: markLive[id] when the check ran
      marked  |-> FALSE,    \* mark_message_processed was called
      texts   |-> 0,        \* send_text calls
      fetched |-> FALSE,    \* requests.get(url) was called
      got     |-> "none",   \* history: what the fetch came to (one of
                            \* FetchOutcomes), until send_document has
                            \* looked for the file
      upload  |-> "none",   \* the upload call: none, ok, rejected, noid, error
      posted  |-> "none",   \* the document message: none, ok, rejected, error
      incs    |-> 0,        \* redis incr calls that succeeded
      atLimit |-> FALSE,    \* history: the count was 12 or more when
                            \* send_document was called
      sd      |-> "none",   \* send_document: none, running, ok, limit,
                            \* failed, raised
      exc     |-> FALSE,    \* process_manga_chapter's except clause ran
      resp    |-> 0 ]       \* the response status, 0 = none yet

(* main.py: the locals of an idle thread.  chunks is len(chunks) and i the
   loop index of handle_command; upload and posted are the two calls of the
   send_document in progress. *)
IdleMain ==
    [ pc      |-> "idle",
      kind    |-> "none",
      chunks  |-> 0,
      i       |-> 0,
      upload  |-> "none",   \* none, ok, emptyid, nokey, rejected, error
      posted  |-> "none",   \* none, ok, rejected, error
      uploads |-> 0,        \* posts to the media endpoint
      posts   |-> 0,        \* document messages posted
      raised  |-> FALSE,    \* send_document raised to handle_command
      texts   |-> 0,        \* send_message calls
      resp    |-> 0 ]

(* main.py, one handle_command(user_id, "fetch:...") call: serialized is
   json.dumps(page_data), chunks the list process_webpage returns, i the
   loop index, msgs the messages built so far, each with what became of
   its send_document call. *)
IdleProxy ==
    [ pc         |-> "idle",    \* idle, chunk, loop, reply, done
      serialized |-> <<>>,
      chunks     |-> <<>>,
      i          |-> 0,
      msgs       |-> <<>> ]

\* request.args.get(...) of a parameter the query string does not hold
None == "None"

(* GET /webhook: the thread's locals and its answer (status 0 = none yet,
   body None = no body of the handler's own). *)
IdleVerify ==
    [ pc        |-> "idle",
      app       |-> "none",    \* app.py or main.py
      secret    |-> None,      \* the VERIFY_TOKEN the process holds
      mode      |-> None,
      token     |-> None,
      challenge |-> None,
      status    |-> 0,
      body      |-> None ]

(* What a user's counter may hold when the behaviour begins: nothing, or
   the count of documents sent to the user within the last hour (the TTL
   is the one the last increment set). *)
InitCounts == {0, MEDIA_LIMIT - 1, MEDIA_LIMIT}

Init ==
    /\ processed = [i \in EventIds |-> 0]
    /\ quotaCount \in [Users -> InitCounts]
    /\ quotaTTL = [u \in Users |-> IF quotaCount[u] > 0 THEN QUOTA_TTL ELSE 0]
    /\ storeUp = TRUE
    /\ tempDir = FALSE
    /\ pdfFile = 0
    /\ run = [w \in Workers |-> IdleRun]
    /\ delivered = 0
    /\ markLive = [i \in EventIds |-> 0]
    /\ windowAge = [u \in Users |-> IF quotaCount[u] > 0 THEN 0 ELSE NoWindow]
    /\ mrun = [w \in Workers |-> IdleMain]
    /\ proxy = IdleProxy
    /\ vrun = IdleVerify

Upd(w, r) == run' = [run EXCEPT ![w] = r]

(* ------------------------------------------------------------------ *)
(* Redis: the idempotency records and the media counter                *)
(* ------------------------------------------------------------------ *)

\* Faulty variant: the lookup builds another key than the one the mark writes.
is_processed_message_other_key(message_id) == FALSE

\* redis_client.get(f"processed_message:{message_id}") is not None
is_processed_message(message_id) == processed[message_id] > 0

\* redis_client.setex(f"processed_message:{message_id}", 3600, "1")
mark_message_processed(message_id) ==
    processed' = [processed EXCEPT ![message_id] = PROCESSED_TTL]

\* int(count) if count else 0
get_user_message_count(user_number) == quotaCount[user_number]

\* Faulty variant: the guard lets a user at the ceiling through.
can_send_media_off_by_one(user_number) ==
    get_user_message_count(user_number) <= MEDIA_LIMIT

can_send_media(user_number) ==
    get_user_message_count(user_number) < MEDIA_LIMIT

\* redis_client.incr(key): a missing key is created with value 1 and no TTL
redis_incr(user_number) ==
    /\ quotaCount' = [quotaCount EXCEPT ![user_number] = @ + 1]
    /\ quotaTTL' = [quotaTTL EXCEPT ![user_number] =
                        IF quotaCount[user_number] = 0 THEN NoExpiry ELSE @]

\* redis_client.expire(key, 24 * 60 * 60): no effect on a missing key
redis_expire(user_number) ==
    quotaTTL' = [quotaTTL EXCEPT ![user_number] =
                     IF quotaCount[user_number] > 0 THEN QUOTA_TTL ELSE @]

(* ------------------------------------------------------------------ *)
(* POST /webhook of app.py                                             *)
(* ------------------------------------------------------------------ *)

\* The request ends with this status.
Respond(r, status) == [r EXCEPT !.pc = "done", !.resp = status]

\* One more send_text call (its result is ignored by every caller and it
\* raises nothing: its body is one try/except returning False).
send_text(r) == [r EXCEPT !.texts = @ + 1]

\* process_manga_chapter's "except Exception" clause, then its finally.
ExceptClause(r) == [send_text(r) EXCEPT !.exc = TRUE, !.pc = "rmdir"]

\* send_document returns (False, detail).
SendFailed(r, why) == [r EXCEPT !.sd = why, !.pc = "sd_return"]

(* Line 304: process_manga_chapter(text, sender) gets the text and the
   sender; message_id is not read again, and the model forgets it. *)
process_manga_chapter(r) ==
    [r EXCEPT !.pc = "can_send", !.ev.id = NoId]

(* Lines 272-311: the three guards on the nesting (a body that is no JSON
   object is not modelled), the idempotency check, then the dispatch on the
   message.  message['text']['body'] (line 298) raises KeyError for a text
   message without a 'text' object; the except clause of line 313 answers
   500. *)
CheckResult(r) ==
    LET id == r.ev.id
        seen == [r EXCEPT !.sawLive = (id # NoId /\ markLive[id] > 0)]
    IN  IF r.ev.kind \in {"noentry", "nochanges", "nomessages"}
        THEN Respond(r, 200)
        ELSE IF id # NoId /\ ~storeUp
        THEN Respond(seen, 500)
        ELSE IF id # NoId /\ is_processed_message(id)
        THEN Respond([seen EXCEPT !.dup = TRUE], 200)
        ELSE IF r.ev.kind = "url"
        THEN IF id # NoId
             THEN [seen EXCEPT !.pc = "mark"]
             ELSE process_manga_chapter(seen)
        ELSE IF r.ev.kind = "plain"
        THEN Respond(send_text(seen), 200)
        ELSE IF r.ev.kind = "nobody"
        THEN Respond(seen, 500)
        ELSE Respond(seen, 200)

(* The platform delivers a message; webhook() takes it out of the body
   (lines 268-289, the body is well formed) and checks its id. *)
Deliver(w, deliveries) ==
    /\ run[w].pc = "idle"
    /\ delivered < MaxRequests
    /\ delivered' = delivered + 1
    /\ \E e \in deliveries : Upd(w, CheckResult([IdleRun EXCEPT !.ev = e]))
    /\ UNCHANGED <<storeVars, storeUp, mainVars, fsVars>>

Receive(w) == Deliver(w, Events)

ReceiveAny(w) == Deliver(w, Events \cup AnonymousEvents)

\* Any POST body, those without a message to process included.
ReceiveBody(w) == Deliver(w, Events \cup AnonymousEvents \cup MalformedBodies)

\* Lines 302-303.
Mark(w) ==
    /\ run[w].pc = "mark"
    /\ IF storeUp
       THEN /\ mark_message_processed(run[w].ev.id)
            /\ markLive' = [markLive EXCEPT ![run[w].ev.id] = PROCESSED_TTL]
            /\ Upd(w, process_manga_chapter([run[w] EXCEPT !.marked = TRUE]))
       ELSE /\ Upd(w, Respond(run[w], 500))
            /\ UNCHANGED <<processed, markLive>>
    /\ UNCHANGED <<quotaCount, quotaTTL, windowAge, storeUp, delivered, mainVars, fsVars>>

\* Faulty variant: the limit notice is sent and the function goes on.
CanSendResult_no_return(r) ==
    IF ~storeUp
    THEN Respond(r, 500)
    ELSE IF ~can_send_media(r.ev.from)
    THEN [send_text(r) EXCEPT !.pc = "prepare"]
    ELSE [r EXCEPT !.pc = "prepare"]

\* process_manga_chapter, lines 167-172: the guard before the try block.
CanSendResult(r) ==
    IF ~storeUp
    THEN Respond(r, 500)
    ELSE IF ~can_send_media(r.ev.from)
    THEN Respond(send_text(r), 200)
    ELSE [r EXCEPT !.pc = "prepare"]

CanSend(w) ==
    /\ run[w].pc = "can_send"
    /\ Upd(w, CanSendResult(run[w]))
    /\ UNCHANGED <<storeVars, storeUp, delivered, mainVars, fsVars>>

\* Lines 176-184: the "Starting to process" text and os.makedirs.
Prepare(w) ==
    /\ run[w].pc = "prepare"
    /\ tempDir' = TRUE
    /\ Upd(w, [send_text(run[w]) EXCEPT !.pc = "fetch"])
    /\ UNCHANGED <<storeVars, storeUp, delivered, mainVars, pdfFile>>

(* Lines 187-233.  What the content source and the image decoder do:
     error    requests.get, a download or Image.open raises
     empty    the page lists no image
     nopage   images are listed and no download returns 200
     pages    at least one image is downloaded and decoded
   first_image.save writes the PDF only in the last case, and raises when
   temp_manga/ has been removed meanwhile. *)
FetchOutcomes == {"error", "empty", "nopage", "pages"}

\* Faulty variant: the return after the "No images found" text is missing.
FetchResult_empty_no_return(r, out, w) ==
    LET f == [r EXCEPT !.fetched = TRUE, !.got = out]
    IN  CASE out = "error"  -> ExceptClause(f)
          [] out = "empty"  -> [send_text(f) EXCEPT !.pc = "sd_can_send"]
          [] out = "nopage" -> [f EXCEPT !.pc = "sd_can_send"]
          [] out = "pages"  -> IF tempDir
                               THEN [f EXCEPT !.pc = "sd_can_send"]
                               ELSE ExceptClause(f)

FetchResult(r, out, w) ==
    LET f == [r EXCEPT !.fetched = TRUE, !.got = out]
    IN  CASE out = "error"  -> ExceptClause(f)
          [] out = "empty"  -> [send_text(f) EXCEPT !.pc = "rmdir"]
          [] out = "nopage" -> [f EXCEPT !.pc = "sd_can_send"]
          [] out = "pages"  -> IF tempDir
                               THEN [f EXCEPT !.pc = "sd_can_send"]
                               ELSE ExceptClause(f)

Fetch(w) ==
    /\ run[w].pc = "fetch"
    /\ \E out \in FetchOutcomes :
          /\ Upd(w, FetchResult(run[w], out, w))
          /\ pdfFile' = IF out = "pages" /\ tempDir THEN w ELSE pdfFile
    /\ UNCHANGED <<storeVars, storeUp, delivered, mainVars, tempDir>>

(* ------------------------------------------------------------------ *)
(* WhatsAppFileSender.send_document                                    *)
(* ------------------------------------------------------------------ *)

(* Lines 75-79, before the try block: the extension check and the quota
   guard.  An exception raised here leaves send_document, and the caller's
   except clause catches it. *)
ALLOWED_EXTENSIONS == {".pdf"}

\* os.path.join("temp_manga", f"{manga_title}_Chapter_{chapter_num}.pdf")
PdfExtension == ".pdf"

SdCanSendResult(r) ==
    LET c == [r EXCEPT !.atLimit =
                  (quotaCount[r.ev.from] >= MEDIA_LIMIT)]
    IN  IF PdfExtension \notin ALLOWED_EXTENSIONS \/ ~storeUp
        THEN [ExceptClause(c) EXCEPT !.sd = "raised"]
        ELSE IF ~can_send_media(r.ev.from)
        THEN SendFailed(c, "limit")
        ELSE [c EXCEPT !.sd = "running", !.pc = "sd_upload"]

SdCanSend(w) ==
    /\ run[w].pc = "sd_can_send"
    /\ Upd(w, SdCanSendResult(run[w]))
    /\ UNCHANGED <<storeVars, storeUp, delivered, mainVars, fsVars>>

(* Lines 83-116, phase 1.  The file is looked up and opened, then posted
   to the media endpoint:
     toobig    the file exceeds 100 MB, nothing is posted
     error     requests.post raises
     rejected  the status is not 200
     noid      the status is 200 and the body carries no id
     ok        the status is 200 and the body carries a media id *)
UploadOutcomes == {"toobig", "error", "rejected", "noid", "ok"}

SdUploadResult(r, out) ==
    LET c == [r EXCEPT !.got = "none"]
    IN  IF pdfFile = 0 \/ out = "toobig"
        THEN SendFailed(c, "failed")
        ELSE IF out = "ok"
        THEN [c EXCEPT !.upload = out, !.pc = "sd_post"]
        ELSE SendFailed([c EXCEPT !.upload = out], "failed")

SdUpload(w) ==
    /\ run[w].pc = "sd_upload"
    /\ \E out \in UploadOutcomes : Upd(w, SdUploadResult(run[w], out))
    /\ UNCHANGED <<storeVars, storeUp, delivered, mainVars, fsVars>>

(* Lines 119-141, phase 2: the document message that carries the media id.
     error     requests.post raises
     rejected  the status is not 200
     ok        the status is 200 *)
PostOutcomes == {"error", "rejected", "ok"}

\* Faulty variant: the status of the document message is not looked at.
SdPostResult_unchecked(r, out) ==
    IF out = "error"
    THEN SendFailed([r EXCEPT !.posted = out], "failed")
    ELSE [r EXCEPT !.posted = out, !.pc = "sd_incr"]

SdPostResult(r, out) ==
    IF out = "ok"
    THEN [r EXCEPT !.posted = out, !.pc = "sd_incr"]
    ELSE SendFailed([r EXCEPT !.posted = out], "failed")

SdPost(w) ==
    /\ run[w].pc = "sd_post"
    /\ \E out \in PostOutcomes : Upd(w, SdPostResult(run[w], out))
    /\ UNCHANGED <<storeVars, storeUp, delivered, mainVars, fsVars>>

\* Line 139, increment_user_message_count, its first command (line 47).
SdIncr(w) ==
    /\ run[w].pc = "sd_incr"
    /\ IF storeUp
       THEN /\ redis_incr(run[w].ev.from)
            /\ windowAge' = [windowAge EXCEPT ![run[w].ev.from] =
                                IF quotaCount[run[w].ev.from] = 0 THEN 0 ELSE @]
            /\ Upd(w, [run[w] EXCEPT !.incs = @ + 1, !.pc = "sd_expire"])
       ELSE /\ Upd(w, SendFailed(run[w], "failed"))
            /\ UNCHANGED <<quotaCount, quotaTTL, windowAge>>
    /\ UNCHANGED <<processed, markLive, storeUp, delivered, mainVars, fsVars>>

\* Its second command (line 48), then return True, "Success" (line 140).
SdExpire(w) ==
    /\ run[w].pc = "sd_expire"
    /\ IF storeUp
       THEN /\ redis_expire(run[w].ev.from)
            /\ Upd(w, [run[w] EXCEPT !.sd = "ok", !.pc = "sd_return"])
       ELSE /\ Upd(w, SendFailed(run[w], "failed"))
            /\ UNCHANGED quotaTTL
    /\ UNCHANGED <<processed, markLive, quotaCount, windowAge, storeUp, delivered, mainVars, fsVars>>

(* ------------------------------------------------------------------ *)
(* process_manga_chapter after send_document                           *)
(* ------------------------------------------------------------------ *)

(* send_document has returned (success, message) to line 236; its locals
   upload_response and response are gone, and so is images_data.  On failure the caller sends the
   "Failed to send PDF file" text (line 249). *)
SdReturnResult(r) ==
    LET c == [r EXCEPT !.upload = "none", !.posted = "none", !.got = "none"]
    IN  IF r.sd = "ok"
        THEN [c EXCEPT !.pc = "report"]
        ELSE [send_text(c) EXCEPT !.pc = "cleanup"]

SdReturn(w) ==
    /\ run[w].pc = "sd_return"
    /\ Upd(w, SdReturnResult(run[w]))
    /\ UNCHANGED <<storeVars, storeUp, delivered, mainVars, fsVars>>

\* Lines 242-247: the success text reads the counter again.
ReportResult(r) ==
    IF storeUp
    THEN [send_text(r) EXCEPT !.pc = "cleanup"]
    ELSE ExceptClause(r)

Report(w) ==
    /\ run[w].pc = "report"
    /\ Upd(w, ReportResult(run[w]))
    /\ UNCHANGED <<storeVars, storeUp, delivered, mainVars, fsVars>>

\* Line 252: os.path.exists(pdf_filename).
Cleanup(w) ==
    /\ run[w].pc = "cleanup"
    /\ Upd(w, [run[w] EXCEPT !.pc = IF pdfFile # 0 THEN "remove" ELSE "rmdir"])
    /\ UNCHANGED <<storeVars, storeUp, delivered, mainVars, fsVars>>

\* Line 253: os.remove(pdf_filename) raises when the file is gone.
Remove(w) ==
    /\ run[w].pc = "remove"
    /\ pdfFile' = 0
    /\ Upd(w, IF pdfFile # 0
              THEN [run[w] EXCEPT !.pc = "rmdir"]
              ELSE ExceptClause(run[w]))
    /\ UNCHANGED <<storeVars, storeUp, delivered, mainVars, tempDir>>

\* Lines 258-263: os.rmdir removes temp_manga/ when it is empty, any error
\* is swallowed.  Then webhook() returns Response(status=200) (line 311).
Rmdir(w) ==
    /\ run[w].pc = "rmdir"
    /\ tempDir' = (tempDir /\ pdfFile # 0)
    /\ Upd(w, Respond(run[w], 200))
    /\ UNCHANGED <<storeVars, storeUp, delivered, mainVars, pdfFile>>

\* The response is sent; the thread takes the next request.
Return(w) ==
    /\ run[w].pc = "done"
    /\ Upd(w, IdleRun)
    /\ UNCHANGED <<storeVars, storeUp, delivered, mainVars, fsVars>>

Steps(w) ==
    \/ Mark(w)
    \/ CanSend(w)
    \/ Prepare(w)
    \/ Fetch(w)
    \/ SdCanSend(w)
    \/ SdUpload(w)
    \/ SdPost(w)
    \/ SdIncr(w)
    \/ SdExpire(w)
    \/ SdReturn(w)
    \/ Report(w)
    \/ Cleanup(w)
    \/ Remove(w)
    \/ Rmdir(w)
    \/ Return(w)

Webhook(w) == Receive(w) \/ Steps(w)

\* One request at a time, messages without an id included.
SeqWebhook == \E w \in SeqWorkers : ReceiveAny(w) \/ Steps(w)

(* ------------------------------------------------------------------ *)
(* The environment: time and Redis                                     *)
(* ------------------------------------------------------------------ *)

\* The TTL of a processed_message key elapses: Redis drops the key.
ProcessedExpires(id) ==
    /\ processed[id] > 0
    /\ processed' = [processed EXCEPT ![id] = 0]
    /\ markLive' = [markLive EXCEPT ![id] = 0]
    /\ UNCHANGED <<quotaCount, quotaTTL, windowAge, storeUp, delivered, mainVars, fsVars, run>>

\* The TTL of a whatsapp_count key elapses: Redis drops the key.
QuotaExpires(u) ==
    /\ quotaTTL[u] > 0
    /\ quotaCount' = [quotaCount EXCEPT ![u] = 0]
    /\ quotaTTL' = [quotaTTL EXCEPT ![u] = 0]
    /\ windowAge' = [windowAge EXCEPT ![u] = NoWindow]
    /\ UNCHANGED <<processed, markLive, storeUp, delivered, mainVars, fsVars, run>>

Next ==
    \/ \E w \in Workers : Webhook(w)
    \/ \E id \in EventIds : ProcessedExpires(id)
    \/ \E u \in Users : QuotaExpires(u)

\* Concurrent requests, Redis reachable, TTLs elapsing at any moment.
Spec == Init /\ [][Next]_vars

(* An hour passes between two requests: every TTL loses an hour, a key
   whose TTL reaches 0 is dropped, a key without a TTL stays. *)
Tick ==
    /\ \A w \in Workers : run[w].pc = "idle"
    /\ \A u \in Users : windowAge[u] < MaxAge
    /\ processed' = [i \in EventIds |->
                        IF processed[i] > 0 THEN processed[i] - 1 ELSE 0]
    /\ markLive' = [i \in EventIds |->
                        IF markLive[i] > 0 THEN markLive[i] - 1 ELSE 0]
    /\ quotaTTL' = [u \in Users |->
                        IF quotaTTL[u] > 0 THEN quotaTTL[u] - 1 ELSE quotaTTL[u]]
    /\ quotaCount' = [u \in Users |->
                        IF quotaTTL[u] = 1 THEN 0 ELSE quotaCount[u]]
    /\ windowAge' = [u \in Users |->
                        IF quotaTTL[u] = 1 THEN NoWindow
                        ELSE IF windowAge[u] = NoWindow THEN NoWindow
                        ELSE windowAge[u] + 1]
    /\ UNCHANGED <<storeUp, delivered, mainVars, fsVars, run>>

NextWindow == SeqWebhook \/ Tick

\* One request at a time, Redis reachable, a clock of hours.
SpecWindow == Init /\ [][NextWindow]_vars

\* Redis stops answering: every command raises redis.ConnectionError.
StoreFails ==
    /\ storeUp
    /\ storeUp' = FALSE
    /\ UNCHANGED <<storeVars, fsVars, run, delivered, mainVars>>

StoreRecovers ==
    /\ ~storeUp
    /\ storeUp' = TRUE
    /\ UNCHANGED <<storeVars, fsVars, run, delivered, mainVars>>

NextFault ==
    \/ SeqWebhook
    \/ \E id \in EventIds : ProcessedExpires(id)
    \/ \E u \in Users : QuotaExpires(u)
    \/ StoreFails
    \/ StoreRecovers

\* One request at a time, Redis reachable or not.
SpecFault == Init /\ [][NextFault]_vars

NextSeq ==
    \/ SeqWebhook
    \/ \E id \in EventIds : ProcessedExpires(id)
    \/ \E u \in Users : QuotaExpires(u)

\* One request at a time, Redis reachable, TTLs elapsing at any moment.
SpecSeq == Init /\ [][NextSeq]_vars

(* ------------------------------------------------------------------ *)
(* main.py: POST /webhook, WebProxy.handle_command and                 *)
(* WhatsAppClient.send_document                                        *)
(* ------------------------------------------------------------------ *)

MUpd(w, r) == mrun' = [mrun EXCEPT ![w] = r]

(* What a delivery to main.py's webhook holds:
     fetch      a text whose body starts with "fetch:"
     command    any other text
     notext     a message without a 'text' key
     nobody     a message whose 'text' holds no 'body': line 191 raises
     malformed  data['entry'][0]['changes'][0]['value']['messages'][0]
                raises (a key or an index is missing) *)
MainKinds == {"fetch", "command", "notext", "nobody", "malformed"}

(* WebProxy.process_webpage, as len(chunks).  Line 116 names datetime,
   which main.py never imports: the try block ends in an exception on
   every call (NameError at the latest) and the except clause returns the
   one-element list [json.dumps({'error': str(e)})]. *)
process_webpage == 1

\* main.py's webhook returns "OK" on every path (line 204).
MRespond(r) == [r EXCEPT !.pc = "done", !.resp = 200]

\* Lines 183-193 and 131-136.
MReceiveResult(kind) ==
    LET r == [IdleMain EXCEPT !.kind = kind]
    IN  CASE kind = "malformed" -> MRespond(r)
          [] kind = "notext"    -> MRespond(r)
          [] kind = "nobody"    -> MRespond(r)
          [] kind = "command"   -> [r EXCEPT !.pc = "reply"]
          [] kind = "fetch"     ->
                [r EXCEPT !.chunks = process_webpage,
                          !.pc = IF process_webpage > 0 THEN "upload"
                                 ELSE "reply"]

MReceive(w) ==
    /\ mrun[w].pc = "idle"
    /\ \E kind \in MainKinds : MUpd(w, MReceiveResult(kind))
    /\ UNCHANGED appVars

(* WhatsAppClient.send_document, lines 43-58: the upload.
     error     requests.post raises
     rejected  the status is not 200: raise Exception (line 56)
     nokey     the status is 200, the body has no 'id': KeyError (line 58)
     emptyid   the status is 200, the body's 'id' is empty or null
     ok        the status is 200, the body's 'id' is a media id
   An exception leaves send_document and handle_command and is caught by
   webhook (lines 201-202). *)
MainUploadOutcomes == {"error", "rejected", "nokey", "emptyid", "ok"}

MUploadResult(r, out) ==
    LET c == [r EXCEPT !.upload = out, !.posted = "none", !.uploads = @ + 1]
    IN  IF out \in {"ok", "emptyid"}
        THEN [c EXCEPT !.pc = "post"]
        ELSE MRespond([c EXCEPT !.raised = TRUE])

MUpload(w) ==
    /\ mrun[w].pc = "upload"
    /\ \E out \in MainUploadOutcomes : MUpd(w, MUploadResult(mrun[w], out))
    /\ UNCHANGED appVars

(* Lines 60-79: the document message; the response is returned whatever
   its status, and handle_command (lines 139-160) ignores it and goes on
   with the next chunk. *)
MPostResult(r, out) ==
    LET c == [r EXCEPT !.posted = out, !.posts = @ + 1]
    IN  IF out = "error"
        THEN MRespond([c EXCEPT !.raised = TRUE])
        ELSE [c EXCEPT !.i = @ + 1,
                       !.pc = IF r.i + 1 < r.chunks THEN "upload" ELSE "reply"]

MPost(w) ==
    /\ mrun[w].pc = "post"
    /\ \E out \in PostOutcomes : MUpd(w, MPostResult(mrun[w], out))
    /\ UNCHANGED appVars

\* Lines 196-204: send_message with handle_command's answer.
MReply(w) ==
    /\ mrun[w].pc = "reply"
    /\ MUpd(w, MRespond([mrun[w] EXCEPT !.texts = @ + 1]))
    /\ UNCHANGED appVars

MReturn(w) ==
    /\ mrun[w].pc = "done"
    /\ MUpd(w, IdleMain)
    /\ UNCHANGED appVars

NextMain ==
    \E w \in Workers :
        \/ MReceive(w)
        \/ MUpload(w)
        \/ MPost(w)
        \/ MReply(w)
        \/ MReturn(w)

\* main.py alone: concurrent requests of the web proxy.
SpecMain == Init /\ [][NextMain]_vars

(* ------------------------------------------------------------------ *)
(* main.py: the chunking of process_webpage and the loop of            *)
(* handle_command, chunk by chunk                                      *)
(* ------------------------------------------------------------------ *)

\* the characters of a serialized payload
Chars == {"x", "y"}

\* json.dumps(page_data), a string of any length up to MaxLen
Payloads == UNION {[1..n -> Chars] : n \in 0..MaxLen}

\* Python's s[a:b] for 0 <= a <= b: the end is clipped to len(s)
Slice(s, a, b) == SubSeq(s, a + 1, IF b < Len(s) THEN b ELSE Len(s))

\* range(0, n, step) as the sequence of its values
Range(n, step) == [k \in 1..((n + step - 1) \div step) |-> (k - 1) * step]

\* Faulty variant: every slice ends one character early.
Chunking_short(serialized) ==
    LET starts == Range(Len(serialized), chunk_size)
    IN  [k \in 1..Len(starts) |->
            Slice(serialized, starts[k], starts[k] + chunk_size - 1)]

\* Lines 121-122: [serialized[i:i + chunk_size] for i in range(0, len, chunk_size)]
Chunking(serialized) ==
    LET starts == Range(Len(serialized), chunk_size)
    IN  [k \in 1..Len(starts) |->
            Slice(serialized, starts[k], starts[k] + chunk_size)]

(* handle_command is called with a fetch command and process_webpage has
   built serialized (line 120).  The chunking is followed for a payload of
   any length; what process_webpage returns for the pages of the
   repository as it is, is process_webpage above. *)
PFetch ==
    /\ proxy.pc = "idle"
    /\ \E s \in Payloads :
          proxy' = [IdleProxy EXCEPT !.pc = "chunk", !.serialized = s]
    /\ UNCHANGED <<appState, mrun, vrun>>

\* Lines 121-124 and 136.
PChunk ==
    /\ proxy.pc = "chunk"
    /\ LET chunks == Chunking(proxy.serialized)
       IN  proxy' = [proxy EXCEPT !.chunks = chunks,
                                  !.pc = IF Len(chunks) > 0 THEN "loop"
                                         ELSE "reply"]
    /\ UNCHANGED <<appState, mrun, vrun>>

(* What becomes of one send_document call of the loop (lines 153-158):
     upload_rejected  the upload is not answered 200: line 56 raises, and
                      the exception ends handle_command
     rejected         the document message is not answered 200: the
                      response is returned (lines 75-79) and dropped
     ok               the document message is answered 200 *)
DispatchOutcomes == {"upload_rejected", "rejected", "ok"}

\* Lines 139-158: one turn of the loop.
PSendResult(p, out) ==
    LET message == [ chunk_index  |-> p.i,
                     total_chunks |-> Len(p.chunks),
                     data         |-> p.chunks[p.i + 1],
                     result       |-> out ]
    IN  [p EXCEPT !.msgs = Append(@, message),
                  !.i = @ + 1,
                  !.pc = IF out = "upload_rejected" THEN "done"
                         ELSE IF p.i + 1 < Len(p.chunks) THEN "loop"
                         ELSE "reply"]

PSend ==
    /\ proxy.pc = "loop"
    /\ \E out \in DispatchOutcomes : proxy' = PSendResult(proxy, out)
    /\ UNCHANGED <<appState, mrun, vrun>>

\* Line 160 and lines 196-199: the "Sent webpage in n chunks" text.
PReply ==
    /\ proxy.pc = "reply"
    /\ proxy' = [proxy EXCEPT !.pc = "done"]
    /\ UNCHANGED <<appState, mrun, vrun>>

\* Line 204.
PReturn ==
    /\ proxy.pc = "done"
    /\ proxy' = IdleProxy
    /\ UNCHANGED <<appState, mrun, vrun>>

NextProxy == PFetch \/ PChunk \/ PSend \/ PReply \/ PReturn

\* main.py: one fetch command after the other, each followed through the
\* chunking and the loop.
SpecProxy == Init /\ [][NextProxy]_vars

(* ------------------------------------------------------------------ *)
(* GET /webhook: the verification handshake of app.py and of main.py   *)
(* ------------------------------------------------------------------ *)

\* main.py line 12
VERIFY_TOKEN == "hello"

\* os.getenv('VERIFY_TOKEN') of app.py: unset, empty, or the secret
AppSecrets == {None, "", VERIFY_TOKEN}

\* hub.mode, hub.verify_token and hub.challenge of the query string; None
\* is a parameter that is not there
Modes == {None, "", "subscribe", "unsubscribe"}

Tokens == {None, "", VERIFY_TOKEN, "wrong"}

Challenges == {None, "1158201444"}

\* Python's truth value of what request.args.get returns
Truthy(x) == x # None /\ x # ""

(* return challenge (app.py line 327, main.py line 174): the challenge is
   the body of a 200 answer; Flask turns a view that returns None into a
   500 answer. *)
ReturnChallenge(v) ==
    IF v.challenge = None
    THEN [v EXCEPT !.pc = "done", !.status = 500]
    ELSE [v EXCEPT !.pc = "done", !.status = 200, !.body = v.challenge]

\* Faulty variant: the token is not compared with the secret.
VerifyAppResult_any_token(v) ==
    IF Truthy(v.mode) /\ Truthy(v.token) /\ v.mode = "subscribe"
    THEN ReturnChallenge(v)
    ELSE [v EXCEPT !.pc = "done", !.status = 403]

\* app.py lines 325-329.
VerifyAppResult(v) ==
    IF Truthy(v.mode) /\ Truthy(v.token)
          /\ v.mode = "subscribe" /\ v.token = v.secret
    THEN ReturnChallenge(v)
    ELSE [v EXCEPT !.pc = "done", !.status = 403]

\* main.py lines 171-178.
VerifyMainResult(v) ==
    IF Truthy(v.mode) /\ Truthy(v.token)
    THEN IF v.mode = "subscribe" /\ v.token = VERIFY_TOKEN
         THEN ReturnChallenge(v)
         ELSE [v EXCEPT !.pc = "done", !.status = 403, !.body = "Forbidden"]
    ELSE [v EXCEPT !.pc = "done", !.status = 404, !.body = "Not Found"]

\* app.py lines 318-329.
VerifyApp ==
    /\ vrun.pc = "idle"
    /\ \E secret \in AppSecrets, mode \in Modes, token \in Tokens,
          challenge \in Challenges :
          vrun' = VerifyAppResult([IdleVerify EXCEPT !.app = "app.py",
                                                    !.secret = secret,
                                                    !.mode = mode,
                                                    !.token = token,
                                                    !.challenge = challenge])
    /\ UNCHANGED <<appState, mrun, proxy>>

\* main.py lines 166-178.
VerifyMain ==
    /\ vrun.pc = "idle"
    /\ \E mode \in Modes, token \in Tokens, challenge \in Challenges :
          vrun' = VerifyMainResult([IdleVerify EXCEPT !.app = "main.py",
                                                     !.secret = VERIFY_TOKEN,
                                                     !.mode = mode,
                                                     !.token = token,
                                                     !.challenge = challenge])
    /\ UNCHANGED <<appState, mrun, proxy>>

\* The answer is sent.
VerifyReturn ==
    /\ vrun.pc = "done"
    /\ vrun' = IdleVerify
    /\ UNCHANGED <<appState, mrun, proxy>>

NextVerify == VerifyApp \/ VerifyMain \/ VerifyReturn

\* The handshake of either application, one request after the other.
SpecVerify == Init /\ [][NextVerify]_vars

NextIngress ==
    \E w \in SeqWorkers :
        \/ ReceiveBody(w)
        \/ Steps(w)
        \/ MReceive(w)
        \/ MUpload(w)
        \/ MPost(w)
        \/ MReply(w)
        \/ MReturn(w)

\* POST /webhook of app.py and of main.py, each handling one request at a
\* time, given any body.
SpecIngress == Init /\ [][NextIngress]_vars

(* ------------------------------------------------------------------ *)
(* Properties                                                          *)
(* ------------------------------------------------------------------ *)

\* The positions inside process_manga_chapter.
PipelinePcs ==
    {"can_send", "prepare", "fetch", "sd_can_send", "sd_upload", "sd_post",
     "sd_incr", "sd_expire", "sd_return", "report", "cleanup", "remove",
     "rmdir"}

(* C1: while the hour after mark_message_processed(id) has not elapsed,
   is_processed_message(id) is true, and a delivery of id whose check runs
   in that hour is skipped: it answers 200 without fetching, without
   writing, uploading or sending a document and without incrementing any
   counter. *)
C1_NoReprocessingWithinTTL ==
    /\ \A id \in EventIds : markLive[id] > 0 => is_processed_message(id)
    /\ \A w \in Workers :
          run[w].sawLive =>
              /\ run[w].dup
              /\ run[w].pc = "done"
              /\ run[w].resp = 200
              /\ ~run[w].fetched
              /\ pdfFile # w
              /\ run[w].sd = "none"
              /\ run[w].upload = "none"
              /\ run[w].posted = "none"
              /\ run[w].incs = 0

\* A redelivery was checked within the hour and skipped.
C1_RedeliverySkipped ==
    \E w \in Workers : run[w].sawLive /\ run[w].dup /\ run[w].pc = "done"

(* C2: two requests that carry the same event id are never both past the
   idempotency check with the mark still to be written (a thread at "mark"
   has passed the check and next marks the id and calls
   process_manga_chapter). *)
C2_CheckAndSet ==
    \A w1, w2 \in Workers :
        (w1 # w2 /\ run[w1].ev.id # NoId /\ run[w1].ev.id = run[w2].ev.id)
            => ~(run[w1].pc = "mark" /\ run[w2].pc = "mark")

(* C3: the stored count of a user never exceeds the ceiling of 12. *)
C3_QuotaCeiling ==
    \A u \in Users : quotaCount[u] <= MEDIA_LIMIT

(* C4: a quota window lasts 24 hours from its first increment, whatever
   is sent meanwhile: no window is open 24 hours after it began. *)
C4_FixedWindow ==
    \A u \in Users : windowAge[u] # NoWindow => windowAge[u] < QUOTA_TTL

(* C5: in both send_document functions the document message is posted only
   for an upload that returned status 200 with a non-empty media id. *)
C5_PostAfterUpload ==
    /\ \A w \in Workers :
          (run[w].pc = "sd_post" \/ run[w].posted # "none")
              => run[w].upload = "ok"
    /\ \A w \in Workers :
          (mrun[w].pc = "post" \/ mrun[w].posted # "none")
              => mrun[w].upload = "ok"

(* app.py's send_document alone: the document message is posted only after
   an upload with status 200 and a media id, and a call whose upload failed
   returns (False, detail) without a document message and without an
   increment. *)
AppPostAfterUpload ==
    \A w \in Workers :
        /\ (run[w].pc = "sd_post" \/ run[w].posted # "none")
              => run[w].upload = "ok"
        /\ run[w].upload \in {"error", "rejected", "noid"}
              => /\ run[w].pc = "sd_return"
                 /\ run[w].sd = "failed"
                 /\ run[w].posted = "none"
                 /\ run[w].incs = 0

\* What a request has incremented, against what send_document returned.
C6_CountedState ==
    \A w \in Workers :
        /\ run[w].incs <= 1
        /\ run[w].incs = 1 => (run[w].posted = "ok" \/ run[w].sd = "ok")
        /\ run[w].pc = "sd_return"
              => (run[w].incs = 1 <=> run[w].posted = "ok")
        /\ run[w].pc \in {"sd_return", "report", "cleanup", "remove",
                          "rmdir", "done"}
              => (run[w].incs = 1 <=> run[w].sd = "ok")

\* How a step may change a user's counter.
C6_CountedStep ==
    \A u \in Users :
        quotaCount'[u] # quotaCount[u] =>
            \/ /\ quotaCount'[u] = quotaCount[u] + 1
               /\ \E w \in Workers :
                     /\ run[w].pc = "sd_incr"
                     /\ run[w].posted = "ok"
                     /\ run[w].ev.from = u
                     /\ run'[w].incs = run[w].incs + 1
            \/ /\ quotaCount'[u] = 0
               /\ windowAge'[u] = NoWindow

(* C6: a send_document call increments the user's counter once when its
   document message was answered 200 and not at all otherwise (refused at
   the limit, file missing or too big, upload failed, message rejected,
   text sends); a counter changes only by that increment, or drops to 0
   when its window ends. *)
C6_IncrementOncePerAcceptedSend ==
    []C6_CountedState /\ [][C6_CountedStep]_vars

\* A send_document call returns after its document message was accepted.
C6_AcceptedSendReturns ==
    \E w \in Workers :
        run[w].pc = "sd_return" /\ run[w].posted = "ok" /\ run[w].incs = 1

(* C7: a send_document call made when the user's count is 12 or more
   returns (False, limit reached) without an upload, a document message or
   an increment. *)
C7_RefusedAtLimit ==
    \A w \in Workers :
        run[w].atLimit =>
            /\ run[w].sd = "limit"
            /\ run[w].upload = "none"
            /\ run[w].posted = "none"
            /\ run[w].incs = 0
            /\ run[w].pc \in {"sd_return", "cleanup", "remove", "rmdir",
                              "done"}
            /\ run[w].pc = "sd_return" => run[w].texts = 1

\* send_document was called at the ceiling and has returned.
C7_CalledAtLimit ==
    \E w \in Workers : run[w].atLimit /\ run[w].pc = "sd_return"

(* C8: send_document never raises to its caller: every failure comes back
   as (False, detail). *)
C8_NeverRaises ==
    \A w \in Workers : run[w].sd # "raised" /\ ~mrun[w].raised

(* C9: a request with an event id that passed the idempotency check has
   marked the id before it does anything else (send a text, fetch, enter
   process_manga_chapter). *)
C9_MarkedBeforeWork ==
    \A w \in Workers :
        ( /\ run[w].ev.id # NoId
          /\ ~run[w].dup
          /\ \/ run[w].texts > 0
             \/ run[w].fetched
             \/ run[w].pc \in PipelinePcs )
            => run[w].marked

(* C10: when process_manga_chapter has returned, the PDF its run wrote no
   longer exists. *)
C10_ArtifactRemoved ==
    \A w \in Workers : run[w].pc = "done" => pdfFile # w

(* C11: a POST body that holds no message to process (no or an empty
   entry, changes or messages; a text message without a text body) is
   answered with status 200 and has no side effect: no text or document is
   sent, nothing is marked processed, no counter changes, nothing is
   fetched. *)
C11_NoMessageNoEffect ==
    /\ \A w \in Workers :
          (run[w].ev \in MalformedBodies /\ run[w].pc = "done") =>
              /\ run[w].resp = 200
              /\ run[w].texts = 0
              /\ ~run[w].marked
              /\ ~run[w].fetched
              /\ run[w].incs = 0
    /\ \A w \in Workers :
          (mrun[w].kind \in {"malformed", "nobody", "notext"}
                /\ mrun[w].pc = "done") =>
              /\ mrun[w].resp = 200
              /\ mrun[w].texts = 0
              /\ mrun[w].uploads = 0
              /\ mrun[w].posts = 0

\* A run that enters process_manga_chapter has done nothing yet.
C12_GuardState ==
    \A w \in Workers :
        run[w].pc = "can_send" =>
            /\ run[w].ev.kind = "url"
            /\ run[w].texts = 0
            /\ ~run[w].fetched
            /\ run[w].upload = "none"
            /\ run[w].posted = "none"
            /\ run[w].incs = 0

\* The step of the guard when the sender's count is 12 or more.
C12_GuardStep ==
    \A w \in Workers :
        ( /\ run[w].pc = "can_send"
          /\ quotaCount[run[w].ev.from] >= MEDIA_LIMIT
          /\ run'[w] # run[w] )
            => /\ run'[w].pc = "done"
               /\ run'[w].resp = 200
               /\ run'[w].texts = 1
               /\ ~run'[w].fetched
               /\ run'[w].sd = "none"
               /\ run'[w].upload = "none"
               /\ run'[w].posted = "none"
               /\ run'[w].incs = 0
               /\ quotaCount' = quotaCount
               /\ quotaTTL' = quotaTTL
               /\ pdfFile' = pdfFile
               /\ tempDir' = tempDir

(* C12: a chapter URL sent by a user whose count is 12 ends the run at the
   guard of process_manga_chapter: one text (the limit notice) is sent,
   the content source is not asked, nothing is uploaded or posted and the
   count stays as it is. *)
C12_AbortAtCeiling ==
    []C12_GuardState /\ [][C12_GuardStep]_vars

\* A chapter request of a user at the ceiling has ended at the guard.
C12_AbortedAtCeiling ==
    \E w \in Workers :
        /\ run[w].pc = "done"
        /\ run[w].ev.kind = "url"
        /\ ~run[w].dup
        /\ run[w].texts = 1
        /\ ~run[w].fetched
        /\ run[w].resp = 200
        /\ quotaCount[run[w].ev.from] = MEDIA_LIMIT

(* C13: a run whose listing page holds no image ends with exactly one
   text to the user, writes no PDF, uploads and posts nothing and
   increments no counter. *)
C13_OneTextWhenEmpty ==
    \A w \in Workers :
        run[w].got = "empty" =>
            /\ run[w].pc \in {"rmdir", "done"}
            /\ run[w].texts = 1
            /\ pdfFile = 0
            /\ run[w].sd = "none"
            /\ run[w].upload = "none"
            /\ run[w].posted = "none"
            /\ run[w].incs = 0

(* C13, amended: a run whose listing page holds no image ends with exactly
   two texts to the user (the start notice of line 181, then the "No images
   found" notice), writes no PDF, never calls send_document, uploads and
   posts nothing and increments no counter. *)
C13_TwoTextsWhenEmpty ==
    \A w \in Workers :
        run[w].got = "empty" =>
            /\ run[w].pc \in {"rmdir", "done"}
            /\ run[w].texts = 2
            /\ pdfFile = 0
            /\ run[w].sd = "none"
            /\ run[w].upload = "none"
            /\ run[w].posted = "none"
            /\ run[w].incs = 0

\* A run whose listing page held no image has ended.
C13_EmptyListingEnded ==
    \E w \in Workers :
        run[w].got = "empty" /\ run[w].pc = "done" /\ run[w].resp = 200

\* The receiver's reassembly: the chunks joined in index order.
RECURSIVE Concat(_)
Concat(seqs) ==
    IF seqs = <<>> THEN <<>> ELSE Head(seqs) \o Concat(Tail(seqs))

(* C14: for a serialized payload of any length the chunks of
   process_webpage, joined in index order, are the payload; every chunk is
   non-empty and at most chunk_size long; the messages handle_command
   builds carry chunk_index 0, 1, ... in order, total_chunks equal to the
   number of chunks and the chunk of that index, and a loop that ran to
   its end has built one message per chunk. *)
C14_ChunkingLossless ==
    proxy.pc \in {"loop", "reply", "done"} =>
        /\ Concat(proxy.chunks) = proxy.serialized
        /\ \A k \in 1..Len(proxy.chunks) :
              /\ Len(proxy.chunks[k]) >= 1
              /\ Len(proxy.chunks[k]) <= chunk_size
        /\ Len(proxy.msgs) <= Len(proxy.chunks)
        /\ \A j \in 1..Len(proxy.msgs) :
              /\ proxy.msgs[j].chunk_index = j - 1
              /\ proxy.msgs[j].total_chunks = Len(proxy.chunks)
              /\ proxy.msgs[j].data = proxy.chunks[j]
        /\ proxy.pc = "reply" => Len(proxy.msgs) = Len(proxy.chunks)

\* A payload one character longer than a chunk was sent in two messages.
C14_OneOverChunkSize ==
    /\ proxy.pc = "reply"
    /\ Len(proxy.serialized) = chunk_size + 1
    /\ Len(proxy.chunks) = 2
    /\ Len(proxy.msgs) = 2

(* C18: in the chunk loop of handle_command, once the dispatch of a chunk
   has failed (its upload or its document message was rejected), no chunk
   of a higher index is uploaded or sent and the failed one is not sent
   again: a message whose dispatch failed is the last one built. *)
C18_AbortAfterFailedDispatch ==
    \A j \in 1..Len(proxy.msgs) :
        proxy.msgs[j].result # "ok" => j = Len(proxy.msgs)

\* The request names the mode subscribe and supplies the secret as token.
C15_Accepted ==
    /\ vrun.mode = "subscribe"
    /\ Truthy(vrun.token)
    /\ vrun.token = vrun.secret

(* C15: the handshake answers 200 with the supplied challenge as body if
   and only if the mode is subscribe and the supplied token is the secret;
   a request without mode or token (absent or empty), with another mode or
   with another token is answered with a 4xx status and a body that is not
   the challenge. *)
C15_ChallengeIffVerified ==
    vrun.pc = "done" =>
        /\ (C15_Accepted /\ vrun.challenge # None)
              => (vrun.status = 200 /\ vrun.body = vrun.challenge)
        /\ ~C15_Accepted
              => /\ vrun.status \in {403, 404}
                 /\ vrun.challenge # None => vrun.body # vrun.challenge
        /\ vrun.status = 200 => C15_Accepted

\* app.py has echoed the challenge of a verified request.
C15_ChallengeEchoed ==
    /\ vrun.pc = "done"
    /\ vrun.app = "app.py"
    /\ vrun.status = 200
    /\ vrun.body = vrun.challenge
    /\ vrun.token = VERIFY_TOKEN

(* C16: the PDF a run has written stays its own until send_document has
   opened it (no other run overwrites or removes it meanwhile), and a run
   that wrote no PDF finds none of another run to upload. *)
C16_PrivateArtifact ==
    \A w \in Workers :
        run[w].pc \in {"sd_can_send", "sd_upload"} =>
            /\ run[w].got = "pages" => pdfFile = w
            /\ run[w].got = "nopage" => pdfFile = 0

(* C17: a run in which no download returned an image reports the empty
   result as a run without listed images does: it does not go on to
   send_document, and ends after the no-content notice. *)
C17_AllDownloadsFailed ==
    \A w \in Workers :
        run[w].got = "nopage" =>
            /\ run[w].pc \in {"rmdir", "done"}
            /\ run[w].sd = "none"

(* C19: every document is sent under the quota: send_document of app.py
   goes on to the upload only after its guard found the count below 12 and
   a call that succeeded has incremented the counter, and main.py uploads
   or posts no document for a user whose count is 12 or more. *)
C19_QuotaBeforeEverySend ==
    /\ \A w \in Workers :
          /\ run[w].sd = "running" => ~run[w].atLimit
          /\ run[w].sd = "ok" => run[w].incs = 1
    /\ \A w \in Workers :
          mrun[w].uploads > 0 =>
              \A u \in Users : quotaCount[u] < MEDIA_LIMIT

(* C20: a delivery whose idempotency lookup or mark meets an unreachable
   store is still answered 200.  (A finished request that still holds its
   message id has not entered process_manga_chapter: it was a duplicate,
   it was no chapter request, or the lookup or the mark raised.) *)
C20_FailsOpen ==
    \A w \in Workers :
        (run[w].pc = "done" /\ run[w].ev \in Events) => run[w].resp = 200

====
